---- MODULE Spec2Model ----
(***************************************************************************)
(* Model of dml/dml_algorithm.py (pyDML): the metric <-> transformer       *)
(* duality of DML_Algorithm (metric, transformer), the projection          *)
(* (transform) and the kernel variant KernelDML_Algorithm (_get_kernel,    *)
(* transform).                                                             *)
(*                                                                         *)
(* An instance is its attribute dictionary: hasattr(self, a) is            *)
(* a \in DOMAIN self.  Matrices are tuples of rows with integer entries;   *)
(* the input sets hold only matrices whose factors are integers, so that   *)
(* every matrix operation is computed exactly.                             *)
(***************************************************************************)
EXTENDS Integers, Sequences, FiniteSets, TLC

VARIABLES self, ret, log, op, nfact, calls, th

vars == <<self, ret, log, op, nfact, calls, th>>

(* ------------------------------ bounds --------------------------------- *)
MaxEntry == 1      \* largest entry of a transform / data matrix
MaxCalls == 3      \* number of method calls made on one instance

(* ------------------------------ matrices ------------------------------- *)
Rows(A) == Len(A)
Cols(A) == Len(A[1])

RECURSIVE Inner(_, _, _)
Inner(u, v, k) == IF k = 0 THEN 0 ELSE u[k] * v[k] + Inner(u, v, k - 1)

\* A.T
T(A) == [j \in 1..Cols(A) |-> [i \in 1..Rows(A) |-> A[i][j]]]

\* A.dot(B)
dot(A, B) ==
    [i \in 1..Rows(A) |-> [j \in 1..Cols(B) |-> Inner(A[i], T(B)[j], Cols(A))]]

IsSquare(n) == \E r \in 0..n : r * r = n
Sqrt(n) == CHOOSE r \in 0..n : r * r = n

RECURSIVE Pow(_, _)
Pow(b, e) == IF e = 0 THEN 1 ELSE b * Pow(b, e - 1)

Clip(x) == IF x < 0 THEN 0 ELSE x

(* numpy.linalg.cholesky on a 2 x 2 matrix: reads the lower triangle, and  *)
(* returns the lower-triangular G with G G^T = M, or raises LinAlgError    *)
(* when a pivot is not positive.                                           *)
CholeskyOk(M) ==
    /\ M[1][1] > 0
    /\ M[1][1] * M[2][2] - M[2][1] * M[2][1] > 0

cholesky(M) ==
    LET g11 == Sqrt(M[1][1])
        g21 == M[2][1] \div g11
        g22 == Sqrt(M[2][2] - g21 * g21)
    IN  <<<<g11, 0>>, <<g21, g22>>>>

\* the factor of M is a matrix of integers
CholeskyExact(M) ==
    /\ IsSquare(M[1][1])
    /\ M[2][1] % Sqrt(M[1][1]) = 0
    /\ LET g21 == M[2][1] \div Sqrt(M[1][1])
       IN  IsSquare(M[2][2] - g21 * g21)

IsDiagonal(M) == M[1][2] = 0 /\ M[2][1] = 0

(* dml_utils.metric_to_linear: eigen-decomposition, non-positive           *)
(* eigenvalues clipped to 0, L = diag(sqrt(eigenvalues)) . eigenvectors^T. *)
(* Computed for a diagonal M, whose eigenvectors are the unit vectors.     *)
metric_to_linear(M) ==
    CASE IsDiagonal(M) ->
        <<<<Sqrt(Clip(M[1][1])), 0>>, <<0, Sqrt(Clip(M[2][2]))>>>>

(* ------------------------------ kernels -------------------------------- *)
EmptyDict == [k \in {} |-> 0]

Get(kw, key, default) == IF key \in DOMAIN kw THEN kw[key] ELSE default

\* sklearn.metrics.pairwise.KERNEL_PARAMS
KERNEL_PARAMS ==
    [linear |-> {}, poly |-> {"gamma", "degree", "coef0"}]

\* the user-supplied kernel function k(x, y, **kw) of the callable kernel
UserKernel(x, y, kw) == Get(kw, "a", 1) * Inner(x, y, Len(x)) + Get(kw, "gamma", 0)

\* sklearn's kernel functions, on two rows
NamedKernel(name, x, y, kw) ==
    IF name = "linear" THEN Inner(x, y, Len(x))
    ELSE Pow(Get(kw, "gamma", 1) * Inner(x, y, Len(x)) + Get(kw, "coef0", 1),
             Get(kw, "degree", 3))

(* sklearn.metrics.pairwise.pairwise_kernels(X, Y, metric, filter_params,  *)
(* **params): a named kernel keeps the keys of KERNEL_PARAMS when          *)
(* filter_params is set and rejects the others when it is not; a callable  *)
(* receives params as they are.                                            *)
pairwise_kernels(X, Y, kern, filter_params, params) ==
    IF ~kern.callable THEN
        LET keep == DOMAIN params \cap KERNEL_PARAMS[kern.name]
            kw == [k \in keep |-> params[k]]
        IN  IF ~filter_params /\ keep # DOMAIN params
            THEN [ok |-> FALSE, value |-> <<>>]
            ELSE [ok |-> TRUE,
                  value |-> [i \in 1..Rows(X) |-> [j \in 1..Rows(Y) |->
                                NamedKernel(kern.name, X[i], Y[j], kw)]]]
    ELSE [ok |-> TRUE,
          value |-> [i \in 1..Rows(X) |-> [j \in 1..Rows(Y) |->
                        UserKernel(X[i], Y[j], params)]]]

\* kernel descriptors of a KernelDML_Algorithm instance
KernelChoices ==
    {[callable |-> FALSE, name |-> "linear"],
     [callable |-> FALSE, name |-> "poly"],
     [callable |-> TRUE, name |-> "user"]}
GammaValues == {2}
DegreeValues == {3}
Coef0Values == {1}
KernelParamsValues ==
    {[none |-> TRUE, kw |-> EmptyDict],
     [none |-> FALSE, kw |-> EmptyDict],
     [none |-> FALSE, kw |-> [a |-> 2]],
     [none |-> FALSE, kw |-> [gamma |-> 5]]}

(* ------------------------------ input sets ----------------------------- *)
Entries == 0..MaxEntry
MetricEntries == (-1)..(MaxEntry + 3)

\* values a fit may give L_: d' x 2 matrices, d' <= 2
TransformValues ==
    {<<<<a, b>>, <<c, d>>>> : a \in Entries, b \in Entries, c \in Entries, d \in Entries}
    \cup {<<<<a, b>>>> : a \in Entries, b \in Entries}

\* values a fit may give M_: symmetric 2 x 2 matrices, positive definite
\* with an integer Cholesky factor, or diagonal and not positive definite
MetricValues ==
    {M \in {<<<<a, b>>, <<b, c>>>> : a \in MetricEntries, b \in MetricEntries, c \in MetricEntries} :
        IF CholeskyOk(M) THEN CholeskyExact(M)
        ELSE IsDiagonal(M) /\ IsSquare(Clip(M[1][1])) /\ IsSquare(Clip(M[2][2]))}

\* training snapshots X_ (2 x 2)
TrainingValues == {<<<<1, 0>>, <<0, 1>>>>, <<<<1, MaxEntry>>, <<0, 1>>>>}

\* arguments of transform: None, an array check_array rejects, valid arrays
NoneArg == [given |-> FALSE, valid |-> TRUE, arr |-> <<>>]
Arguments ==
    {NoneArg,
     [given |-> TRUE, valid |-> FALSE, arr |-> <<>>],
     [given |-> TRUE, valid |-> TRUE, arr |-> <<<<1, 1>>>>],
     [given |-> TRUE, valid |-> TRUE, arr |-> <<<<0, 1>>, <<1, MaxEntry>>>>]}

(* ------------------------------ instances ------------------------------ *)
hasattr(obj, name) == name \in DOMAIN obj

setattr(obj, name, v) ==
    [k \in DOMAIN obj \cup {name} |-> IF k = name THEN v ELSE obj[k]]

\* exceptions: the type and the message
NoExc == [type |-> "", msg |-> ""]
MetricNotFitted ==
    [type |-> "NameError", msg |-> "Metric was not defined. Algorithm was not fitted."]
TransformerNotFitted ==
    [type |-> "NameError", msg |-> "Transformer was not defined. Algorithm was not fitted."]
AttributeError == [type |-> "AttributeError", msg |-> "no such attribute"]
ValueError == [type |-> "ValueError", msg |-> "check_array"]
TypeError == [type |-> "TypeError", msg |-> "pairwise_kernels"]

Returned(obj, v, lg) ==
    [self |-> obj, kind |-> "return", value |-> v, exc |-> NoExc, log |-> lg]

Raised(obj, e, lg) ==
    [self |-> obj, kind |-> "raise", value |-> <<>>, exc |-> e, log |-> lg]

\* line 35, right-hand side: L.T.dot(L)
gram_swapped(L) == dot(L, T(L))
gram(L) == dot(T(L), L)

\* line 35, the assignment self.M_ = ...
store_metric_skipped(obj, M) == obj
store_metric(obj, M) == setattr(obj, "M_", M)

\* line 55: cholesky(..).T
primary_untransposed(M) == cholesky(M)
primary(M) == T(cholesky(M))

(* lines 56 and 59: return L.  Both branches of the try statement return,  *)
(* so the assignment self.L_ = L of line 60 is never executed.             *)
return_derived_cached(obj, L, lg) == Returned(setattr(obj, "L_", L), L, lg)
return_derived_misplaced(obj, L, lg) == Returned(setattr(obj, "M_", L), L, lg)
return_derived(obj, L, lg) == Returned(obj, L, lg)

\* lines 38 and 63: raise NameError(..)
not_fitted_attribute(obj, e) == Raised(obj, [type |-> "AttributeError", msg |-> e.msg], <<>>)
not_fitted(obj, e) == Raised(obj, e, <<>>)

RECURSIVE metric(_), transformer(_)

\* DML_Algorithm.metric
metric(obj) ==
    IF hasattr(obj, "M_") THEN Returned(obj, obj.M_, <<>>)
    ELSE IF hasattr(obj, "L_") THEN
        LET r == transformer(obj)
        IN  IF r.kind = "raise" THEN r
            ELSE LET o2 == store_metric(r.self, gram(r.value))
                 IN  IF hasattr(o2, "M_") THEN Returned(o2, o2.M_, r.log)
                     ELSE Raised(o2, AttributeError, r.log)
    ELSE not_fitted(obj, MetricNotFitted)

\* DML_Algorithm.transformer
transformer(obj) ==
    IF hasattr(obj, "L_") THEN Returned(obj, obj.L_, <<>>)
    ELSE IF hasattr(obj, "M_") THEN
        LET m1 == metric(obj)
            c1 == [fn |-> "cholesky", arg |-> m1.value, ok |-> CholeskyOk(m1.value)]
        IN  IF m1.kind = "return" /\ c1.ok
            THEN return_derived(m1.self, primary(m1.value), m1.log \o <<c1>>)
            ELSE LET lg1 == IF m1.kind = "return" THEN m1.log \o <<c1>> ELSE m1.log
                     m2 == metric(m1.self)
                 IN  IF m2.kind = "raise" THEN Raised(m2.self, m2.exc, lg1 \o m2.log)
                     ELSE return_derived(m2.self, metric_to_linear(m2.value),
                                   lg1 \o m2.log \o
                                   <<[fn |-> "metric_to_linear", arg |-> m2.value, ok |-> TRUE]>>)
    ELSE not_fitted(obj, TransformerNotFitted)

\* a _get_kernel that adds kernel_params_ to the parameters of a named kernel
_get_kernel_merged(obj, X, Y) ==
    LET kp == IF obj.kernel_params_.none THEN EmptyDict ELSE obj.kernel_params_.kw
        named == [gamma |-> obj.gamma_, degree |-> obj.degree_, coef0 |-> obj.coef0_]
        params == IF obj.kernel_.callable THEN kp
                  ELSE [k \in DOMAIN named \cup DOMAIN kp |->
                          IF k \in DOMAIN kp THEN kp[k] ELSE named[k]]
        k == pairwise_kernels(X, Y, obj.kernel_, TRUE, params)
    IN  [ok |-> k.ok, value |-> k.value,
         log |-> <<[fn |-> "pairwise_kernels", X |-> X, Y |-> Y, metric |-> obj.kernel_,
                    filter_params |-> TRUE, params |-> params, ok |-> k.ok]>>]

\* KernelDML_Algorithm._get_kernel
_get_kernel(obj, X, Y) ==
    LET params == IF obj.kernel_.callable
                  THEN (IF obj.kernel_params_.none \/ obj.kernel_params_.kw = EmptyDict
                        THEN EmptyDict ELSE obj.kernel_params_.kw)
                  ELSE [gamma |-> obj.gamma_, degree |-> obj.degree_, coef0 |-> obj.coef0_]
        k == pairwise_kernels(X, Y, obj.kernel_, TRUE, params)
    IN  [ok |-> k.ok, value |-> k.value,
         log |-> <<[fn |-> "pairwise_kernels", X |-> X, Y |-> Y, metric |-> obj.kernel_,
                    filter_params |-> TRUE, params |-> params, ok |-> k.ok]>>]

\* lines 78-81 and 108-111: X = self.X_ when X is None, else check_array(X)
InputOf(obj, X) ==
    IF ~X.given
    THEN (IF hasattr(obj, "X_") THEN [ok |-> TRUE, value |-> obj.X_, exc |-> NoExc]
          ELSE [ok |-> FALSE, value |-> <<>>, exc |-> AttributeError])
    ELSE IF X.valid THEN [ok |-> TRUE, value |-> X.arr, exc |-> NoExc]
    ELSE [ok |-> FALSE, value |-> <<>>, exc |-> ValueError]

\* DML_Algorithm.transform
transform(obj, X) ==
    LET x == InputOf(obj, X)
    IN  IF ~x.ok THEN Raised(obj, x.exc, <<>>)
        ELSE LET r == transformer(obj)
             IN  IF r.kind = "raise" THEN r
                 ELSE Returned(r.self, dot(x.value, T(r.value)), r.log)

\* KernelDML_Algorithm.transform
kernel_transform(obj, X) ==
    LET x == InputOf(obj, X)
    IN  IF ~x.ok THEN Raised(obj, x.exc, <<>>)
        ELSE LET r == transformer(obj)
             IN  IF r.kind = "raise" THEN r
                 ELSE IF ~hasattr(r.self, "X_")
                 THEN Raised(r.self, AttributeError, r.log)
                 ELSE LET K == _get_kernel(r.self, x.value, r.self.X_)
                      IN  IF ~K.ok THEN Raised(r.self, TypeError, r.log \o K.log)
                          ELSE Returned(r.self, dot(K.value, T(r.value)), r.log \o K.log)

(* ------------------------------ state machine -------------------------- *)
NoOp == [name |-> "none", X |-> NoneArg]
NoRet == [kind |-> "none", value |-> <<>>, exc |-> NoExc]

IsFactorization(e) == e.fn \in {"cholesky", "metric_to_linear"}
Factorized(lg) == \E i \in 1..Len(lg) : IsFactorization(lg[i])

\* a constructed, not yet fitted instance of a concrete subclass
Instances ==
    {[cls |-> "DML_Algorithm"]}
    \cup {[cls |-> "KernelDML_Algorithm", kernel_ |-> k, gamma_ |-> g, degree_ |-> d,
           coef0_ |-> c, kernel_params_ |-> p] :
             k \in KernelChoices, g \in GammaValues, d \in DegreeValues,
             c \in Coef0Values, p \in KernelParamsValues}

Init ==
    /\ self \in Instances
    /\ ret = NoRet
    /\ log = <<>>
    /\ op = NoOp
    /\ nfact = 0
    /\ calls = 0
    /\ th = <<>>

\* the outcome r of a method call becomes the state
Finish(name, X, r) ==
    /\ self' = r.self
    /\ ret' = [kind |-> r.kind, value |-> r.value, exc |-> r.exc]
    /\ log' = r.log
    /\ op' = [name |-> name, X |-> X]
    /\ nfact' = IF Factorized(r.log) THEN nfact + 1 ELSE nfact
    /\ calls' = calls + 1
    /\ UNCHANGED th

\* a concrete algorithm's fit: sets X_ and exactly one of M_ / L_
Fit ==
    /\ ~hasattr(self, "M_") /\ ~hasattr(self, "L_")
    /\ \E X \in TrainingValues :
          \/ \E M \in MetricValues :
                self' = setattr(setattr(self, "X_", X), "M_", M)
          \/ \E L \in TransformValues :
                self' = setattr(setattr(self, "X_", X), "L_", L)
    /\ op' = [name |-> "fit", X |-> NoneArg]
    /\ ret' = NoRet
    /\ log' = <<>>
    /\ UNCHANGED <<nfact, calls, th>>

CallMetric ==
    /\ calls < MaxCalls
    /\ Finish("metric", NoneArg, metric(self))

CallTransformer ==
    /\ calls < MaxCalls
    /\ Finish("transformer", NoneArg, transformer(self))

CallTransform ==
    /\ calls < MaxCalls
    /\ self.cls = "DML_Algorithm"
    /\ \E X \in Arguments : Finish("transform", X, transform(self, X))

CallKernelTransform ==
    /\ calls < MaxCalls
    /\ self.cls = "KernelDML_Algorithm"
    /\ \E X \in Arguments : Finish("transform", X, kernel_transform(self, X))

Next ==
    \/ Fit
    \/ CallMetric
    \/ CallTransformer
    \/ CallTransform
    \/ CallKernelTransform

Spec == Init /\ [][Next]_vars

(* ------------------------------ concurrent calls ----------------------- *)
(* Two threads call accessors on one fitted instance.  A thread is a stack *)
(* of frames [fn, pc, loc]; the attribute test, the derivation, the        *)
(* attribute write and the return are separate atomic steps.               *)
NumThreads == 2
Threads == 1..NumThreads

Frame(fn, pc, loc) == [fn |-> fn, pc |-> pc, loc |-> loc]

\* first statement of a method: line 30 (metric), line 50 (transformer)
Entry(fn) == IF fn = "metric" THEN Frame("metric", "testM", <<>>)
             ELSE Frame("transformer", "testL", <<>>)

Top(t) == th[t].stack[Len(th[t].stack)]
Running(t) == th[t].stack # <<>>

SetTop(t, f) ==
    th' = [th EXCEPT ![t].stack = [@ EXCEPT ![Len(@)] = f]]

RECURSIVE Unwind(_, _)
(* the top frame of stack st ends with outcome o: a returned value goes to *)
(* the caller's local; an exception raised under the try of line 54 enters *)
(* the except of line 57, any other propagates to the caller's caller.     *)
Unwind(st, o) ==
    IF Len(st) = 1 THEN [stack |-> <<>>, res |-> o]
    ELSE LET rest == SubSeq(st, 1, Len(st) - 1)
             c == rest[Len(rest)]
             put(f) == [stack |-> [rest EXCEPT ![Len(rest)] = f], res |-> NoRet]
         IN  IF o.kind = "return"
             THEN CASE c.pc = "call"  -> put(Frame(c.fn, "derive", o.value))
                    [] c.pc = "call1" -> put(Frame(c.fn, "cholesky", o.value))
                    [] c.pc = "call2" -> put(Frame(c.fn, "fallback", o.value))
             ELSE IF c.pc = "call1" THEN put(Frame(c.fn, "call2", <<>>))
             ELSE Unwind(rest, o)

Finished(t, o) ==
    LET u == Unwind(th[t].stack, o)
    IN  th' = [th EXCEPT ![t].stack = u.stack, ![t].res = u.res]

\* hasattr tests: lines 30, 33 (metric) and 50, 53 (transformer)
TestPresence(t) ==
    /\ Running(t)
    /\ Top(t).pc \in {"testM", "testL"}
    /\ LET f == Top(t)
       IN  IF f.fn = "metric"
           THEN IF f.pc = "testM"
                THEN SetTop(t, Frame(f.fn, IF hasattr(self, "M_") THEN "retM" ELSE "testL", <<>>))
                ELSE IF hasattr(self, "L_") THEN SetTop(t, Frame(f.fn, "call", <<>>))
                ELSE Finished(t, [kind |-> "raise", value |-> <<>>, exc |-> MetricNotFitted])
           ELSE IF f.pc = "testL"
                THEN SetTop(t, Frame(f.fn, IF hasattr(self, "L_") THEN "retL" ELSE "testM", <<>>))
                ELSE IF hasattr(self, "M_") THEN SetTop(t, Frame(f.fn, "call1", <<>>))
                ELSE Finished(t, [kind |-> "raise", value |-> <<>>, exc |-> TransformerNotFitted])
    /\ UNCHANGED <<self, ret, log, op, nfact, calls>>

\* the nested calls: self.transformer() of line 34, self.metric() of lines 55, 58
Enter(t) ==
    /\ Running(t)
    /\ Top(t).pc \in {"call", "call1", "call2"}
    /\ th' = [th EXCEPT ![t].stack =
                Append(@, Entry(IF Top(t).fn = "metric" THEN "transformer" ELSE "metric"))]
    /\ UNCHANGED <<self, ret, log, op, nfact, calls>>

\* L.T.dot(L) of line 35, cholesky(..).T of line 55, metric_to_linear of line 58
Derive(t) ==
    /\ Running(t)
    /\ Top(t).pc \in {"derive", "cholesky", "fallback"}
    /\ LET f == Top(t)
       IN  CASE f.pc = "derive" -> SetTop(t, Frame(f.fn, "write", gram(f.loc)))
             [] f.pc = "cholesky" ->
                    IF CholeskyOk(f.loc) THEN SetTop(t, Frame(f.fn, "ret", primary(f.loc)))
                    ELSE SetTop(t, Frame(f.fn, "call2", <<>>))
             [] f.pc = "fallback" -> SetTop(t, Frame(f.fn, "ret", metric_to_linear(f.loc)))
    /\ UNCHANGED <<self, ret, log, op, nfact, calls>>

\* a write that first stores an empty matrix and fills it in a second step
WriteSlotInTwoSteps(t) ==
    /\ Running(t)
    /\ Top(t).pc = "write"
    /\ IF hasattr(self, "M_") /\ self.M_ = [i \in 1..2 |-> [j \in 1..2 |-> 0]]
       THEN self' = setattr(self, "M_", Top(t).loc) /\ SetTop(t, Frame(Top(t).fn, "retM", <<>>))
       ELSE self' = setattr(self, "M_", [i \in 1..2 |-> [j \in 1..2 |-> 0]])
            /\ SetTop(t, Top(t))
    /\ UNCHANGED <<ret, log, op, nfact, calls>>

\* self.M_ = ... of line 35 (the assignment of line 60 is unreachable)
WriteSlot(t) ==
    /\ Running(t)
    /\ Top(t).pc = "write"
    /\ self' = setattr(self, "M_", Top(t).loc)
    /\ SetTop(t, Frame(Top(t).fn, "retM", <<>>))
    /\ UNCHANGED <<ret, log, op, nfact, calls>>

\* return self.M_ (lines 31, 36), return self.L_ (line 51), return L (lines 56, 59)
Return(t) ==
    /\ Running(t)
    /\ Top(t).pc \in {"retM", "retL", "ret"}
    /\ LET f == Top(t)
           v == CASE f.pc = "retM" -> self.M_
                  [] f.pc = "retL" -> self.L_
                  [] f.pc = "ret" -> f.loc
       IN  Finished(t, [kind |-> "return", value |-> v, exc |-> NoExc])
    /\ UNCHANGED <<self, ret, log, op, nfact, calls>>

\* instances a fit leaves: X_ and exactly one of M_ / L_
Fitted ==
    {setattr(setattr([cls |-> "DML_Algorithm"], "X_", X), "M_", M) :
        X \in TrainingValues, M \in MetricValues}
    \cup {setattr(setattr([cls |-> "DML_Algorithm"], "X_", X), "L_", L) :
        X \in TrainingValues, L \in TransformValues}

InitConc ==
    /\ self \in Fitted
    /\ ret = NoRet
    /\ log = <<>>
    /\ op = NoOp
    /\ nfact = 0
    /\ calls = 0
    /\ \E c \in [Threads -> {"metric", "transformer"}] :
          th = [t \in Threads |->
                  [call |-> c[t], stack |-> <<Entry(c[t])>>, res |-> NoRet, self0 |-> self]]

NextConc ==
    \E t \in Threads :
        \/ TestPresence(t)
        \/ Enter(t)
        \/ Derive(t)
        \/ WriteSlot(t)
        \/ Return(t)

SpecConc == InitConc /\ [][NextConc]_vars

(* ------------------------------ properties ----------------------------- *)
\* the step is a completed call of the method
Called(name) == calls' = calls + 1 /\ op'.name = name

FitMetricOnly(obj) == hasattr(obj, "M_") /\ ~hasattr(obj, "L_")
FitTransformOnly(obj) == hasattr(obj, "L_") /\ ~hasattr(obj, "M_")
Unfitted(obj) == ~hasattr(obj, "M_") /\ ~hasattr(obj, "L_")

(* C1: after transformer() has returned on an instance that has M_, the    *)
(* instance has L_ and L_ equals the returned value.                       *)
C1_TransformerCachesL ==
    (op.name = "transformer" /\ ret.kind = "return" /\ hasattr(self, "M_"))
        => (hasattr(self, "L_") /\ self.L_ = ret.value)

(* C2: over the calls made on one fitted instance, at most one call        *)
(* factorizes M.                                                           *)
C2_FactorizeAtMostOnce == nfact <= 1

(* C3: metric() returns M_ and leaves the instance alone when M_ is        *)
(* present; when only L_ is present it returns L_^T L_ and has stored it   *)
(* in M_.                                                                  *)
C3_MetricReturnsOrDerives ==
    [][Called("metric") =>
          /\ hasattr(self, "M_") =>
                (ret'.kind = "return" /\ ret'.value = self.M_ /\ self' = self)
          /\ FitTransformOnly(self) =>
                /\ ret'.kind = "return"
                /\ ret'.value = dot(T(self.L_), self.L_)
                /\ hasattr(self', "M_") /\ self'.M_ = ret'.value]_vars

C3_Witness ==
    /\ op.name = "metric" /\ calls >= 2 /\ ret.kind = "return"
    /\ hasattr(self, "L_") /\ hasattr(self, "M_")
    /\ ret.value = self.M_
    /\ self.M_ # self.L_

(* C4: on an instance with neither M_ nor L_, metric() and transformer()   *)
(* raise the NameError "... Algorithm was not fitted." and leave the       *)
(* instance as it was.                                                     *)
C4_UnfittedRaisesNameError ==
    [][(Unfitted(self) /\ (Called("metric") \/ Called("transformer"))) =>
          /\ ret'.kind = "raise"
          /\ ret'.exc = (IF op'.name = "metric" THEN MetricNotFitted ELSE TransformerNotFitted)
          /\ ret'.exc.type = "NameError"
          /\ self' = self]_vars

C4_Witness ==
    /\ Unfitted(self) /\ calls >= 2
    /\ op.name = "transformer" /\ ret.kind = "raise" /\ ret.exc.type = "NameError"

(* C5: whenever M_ and L_ are both present, M_ = L_^T L_.                  *)
C5_Duality ==
    (hasattr(self, "M_") /\ hasattr(self, "L_")) => self.M_ = dot(T(self.L_), self.L_)

C5_Witness ==
    /\ hasattr(self, "M_") /\ hasattr(self, "L_")
    /\ self.M_ # dot(self.L_, T(self.L_))
    /\ op.name = "transform"

C7_OnlyFillsEmptySlot ==
    [][(Called("metric") \/ Called("transformer") \/ Called("transform")) =>
          /\ \A a \in {"M_", "L_"} :
                hasattr(self, a) => (hasattr(self', a) /\ self'[a] = self[a])
          /\ Called("metric") => (hasattr(self', "L_") <=> hasattr(self, "L_"))
          /\ Called("transformer") => (hasattr(self', "M_") <=> hasattr(self, "M_"))]_vars

C7_Witness ==
    /\ op.name = "transformer" /\ calls = MaxCalls /\ ret.kind = "return"
    /\ hasattr(self, "M_") /\ hasattr(self, "L_") /\ nfact = 0

(* C8: transform(X) of either class leaves every attribute of the instance *)
(* as it was, and a transform(X) that follows a transform(X) with the same *)
(* X has the same outcome.                                                 *)
C8_TransformChangesNothing ==
    [][Called("transform") =>
          /\ self' = self
          /\ (op.name = "transform" /\ op.X = op'.X) => ret' = ret]_vars

C8_Witness ==
    /\ op.name = "transform" /\ op.X.given /\ ret.kind = "return" /\ calls >= 2
    /\ self.cls = "KernelDML_Algorithm"
    /\ FitMetricOnly(self) /\ nfact >= 2

(* C9: the parameters _get_kernel hands to pairwise_kernels are            *)
(* kernel_params_ (the empty mapping when it is None or empty) for a       *)
(* callable kernel_ and {gamma: gamma_, degree: degree_, coef0: coef0_}    *)
(* for a named one, with filter_params set.                                *)
C9_KernelParams ==
    \A i \in 1..Len(log) :
        log[i].fn = "pairwise_kernels" =>
            /\ log[i].filter_params
            /\ log[i].metric = self.kernel_
            /\ IF self.kernel_.callable
               THEN log[i].params = (IF self.kernel_params_.none THEN EmptyDict
                                     ELSE self.kernel_params_.kw)
               ELSE /\ DOMAIN log[i].params = {"gamma", "degree", "coef0"}
                    /\ log[i].params["gamma"] = self.gamma_
                    /\ log[i].params["degree"] = self.degree_
                    /\ log[i].params["coef0"] = self.coef0_

C9_Witness ==
    /\ log # <<>> /\ log[Len(log)].fn = "pairwise_kernels"
    /\ self.kernel_.callable /\ log[Len(log)].params = [a |-> 2]
    /\ self.gamma_ = 2 /\ ret.kind = "return"

(* C10: under every interleaving of two accessor calls on a fitted         *)
(* instance, a finished call has returned what the call returns when run   *)
(* alone, the attributes the fit set keep their values, and M_ = L_^T L_   *)
(* whenever both are present.                                              *)
Alone(call, obj) == IF call = "metric" THEN metric(obj) ELSE transformer(obj)

C10_ConcurrentCallsAgree ==
    \A t \in Threads :
        /\ th[t].res.kind \in {"none", "return"}
        /\ ~Running(t) =>
              /\ th[t].res.kind = "return"
              /\ th[t].res.value = Alone(th[t].call, th[t].self0).value
        /\ \A a \in DOMAIN th[t].self0 : hasattr(self, a) /\ self[a] = th[t].self0[a]
        /\ (hasattr(self, "M_") /\ hasattr(self, "L_")) =>
              self.M_ = dot(T(self.L_), self.L_)

C10_Witness ==
    /\ ~Running(1) /\ th[1].call = "metric" /\ th[1].res.kind = "return"
    /\ Running(2) /\ Top(2).pc = "write"
    /\ FitTransformOnly(th[1].self0)
    /\ hasattr(self, "M_") /\ self.M_ # self.L_

====
